---------------------------- MODULE Spec2Model ----------------------------
(***************************************************************************)
(* The Pokemon ETL pipeline of pokemon_etl/dagster/assets.py: three raw    *)
(* warehouse tables are read, joined, renamed, filtered, extended with     *)
(* four derived columns and written back to PY_POKEMON_PROCESSED.          *)
(*                                                                         *)
(* Every asset returns a polars LazyFrame, a query plan.  A plan is        *)
(* modelled by what resolving it gives: a table, a schema error (raised    *)
(* when the plan's schema is resolved, assets.py:380) or a compute error   *)
(* (raised when the plan is collected, assets.py:413).                     *)
(***************************************************************************)
EXTENDS Integers, Sequences, FiniteSets, TLC

(***************************************************************************)
(* Tables.  A table is [err, cols, dtypes, rows]: cols the ordered column  *)
(* names, dtypes the type of each column, rows a sequence of functions     *)
(* from column name to cell.                                               *)
(***************************************************************************)
Range(s) == {s[i] : i \in DOMAIN s}

IndexOf(s, c) == CHOOSE i \in DOMAIN s : s[i] = c

NoDup(s) == \A i, j \in DOMAIN s : s[i] = s[j] => i = j

Plan(cols, dtypes, rows) ==
    [err |-> "none", cols |-> cols, dtypes |-> dtypes, rows |-> rows]

\* The plan does not resolve: a column is missing or a name is duplicated.
SchemaError == [err |-> "schema", cols |-> <<>>, dtypes |-> <<>>, rows |-> <<>>]

\* The plan resolves to a schema, and collecting it raises.
ComputeError(cols, dtypes) ==
    [err |-> "compute", cols |-> cols, dtypes |-> dtypes, rows |-> <<>>]

HasCols(t, cs) == cs \subseteq Range(t.cols)

\* A dtype is a polars class with its parameters; a class that takes none
\* has args "".
DT(cls, args) == [cls |-> cls, args |-> args]

Int64 == DT("Int64", "")
UInt32 == DT("UInt32", "")
Float32 == DT("Float32", "")
Float64 == DT("Float64", "")
Utf8 == DT("Utf8", "")

\* A text cell that is not the text of a number: the strict cast of
\* assets.py:270 raises on it.
Unparsable == 0 - 1

(***************************************************************************)
(* polars join(other, "ID"): an inner join.  The key must be a column of   *)
(* both sides.  The right side's other columns follow the left side's; one *)
(* whose name the left side has too gets the suffix "_right", and a name   *)
(* that is still taken is an error.  Rows come in the left side's order.   *)
(***************************************************************************)
RECURSIVE Without(_, _)
Without(cols, key) ==
    IF cols = <<>> THEN <<>>
    ELSE (IF Head(cols) = key THEN <<>> ELSE <<Head(cols)>>) \o Without(Tail(cols), key)

RightCols(r) == Without(r.cols, "ID")

\* A variant that keeps the right side's name as it is.
SuffixedNone(l, c) == c

Suffixed(l, c) == IF c \in Range(l.cols) THEN c \o "_right" ELSE c

JoinCols(l, r) ==
    l.cols \o [i \in DOMAIN RightCols(r) |-> Suffixed(l, RightCols(r)[i])]

\* The column of the right side that output column c comes from.
RightSource(l, r, c) == RightCols(r)[IndexOf(JoinCols(l, r), c) - Len(l.cols)]

JoinDtypes(l, r) ==
    [c \in Range(JoinCols(l, r)) |->
        IF c \in Range(l.cols) THEN l.dtypes[c]
        ELSE r.dtypes[RightSource(l, r, c)]]

JoinRow(l, r, a, b) ==
    [c \in Range(JoinCols(l, r)) |->
        IF c \in Range(l.cols) THEN a[c] ELSE b[RightSource(l, r, c)]]

\* A variant that pairs every row with every row.
RowMatchesAny(a, b) == TRUE

RowMatches(a, b) == a["ID"] = b["ID"]

\* The rows of the right side that match left row a, joined to it.
RECURSIVE MatchRows(_, _, _, _)
MatchRows(l, r, a, rrows) ==
    IF rrows = <<>> THEN <<>>
    ELSE (IF RowMatches(a, Head(rrows)) THEN <<JoinRow(l, r, a, Head(rrows))>> ELSE <<>>)
         \o MatchRows(l, r, a, Tail(rrows))

RECURSIVE JoinRows(_, _, _)
JoinRows(l, r, lrows) ==
    IF lrows = <<>> THEN <<>>
    ELSE MatchRows(l, r, Head(lrows), r.rows) \o JoinRows(l, r, Tail(lrows))

Join(l, r) ==
    IF l.err = "schema" \/ r.err = "schema" THEN SchemaError
    ELSE IF ~HasCols(l, {"ID"}) \/ ~HasCols(r, {"ID"}) THEN SchemaError
    ELSE IF ~NoDup(JoinCols(l, r)) THEN SchemaError
    ELSE IF l.err = "compute" \/ r.err = "compute"
         THEN ComputeError(JoinCols(l, r), JoinDtypes(l, r))
    ELSE Plan(JoinCols(l, r), JoinDtypes(l, r), JoinRows(l, r, l.rows))

joined_table(b, t, r) == Join(Join(b, t), r)

(***************************************************************************)
(* renamed_table: a strict rename of four columns.                         *)
(***************************************************************************)
RenameKeys == {"Type 1", "Type 2", "Sp. Attack", "Sp. Defense"}

Renamed(c) ==
    CASE c = "Type 1" -> "TYPE_1"
      [] c = "Type 2" -> "TYPE_2"
      [] c = "Sp. Attack" -> "SP_ATTACK"
      [] c = "Sp. Defense" -> "SP_DEFENSE"
      [] OTHER -> c

RenameCols(t) == [i \in DOMAIN t.cols |-> Renamed(t.cols[i])]

RenameSource(t, c) == t.cols[IndexOf(RenameCols(t), c)]

RenameDtypes(t) == [c \in Range(RenameCols(t)) |-> t.dtypes[RenameSource(t, c)]]

renamed_table(j) ==
    IF j.err = "schema" THEN SchemaError
    ELSE IF ~HasCols(j, RenameKeys) \/ ~NoDup(RenameCols(j)) THEN SchemaError
    ELSE IF j.err = "compute" THEN ComputeError(RenameCols(j), RenameDtypes(j))
    ELSE Plan(RenameCols(j), RenameDtypes(j),
              [i \in DOMAIN j.rows |->
                  [c \in Range(RenameCols(j)) |-> j.rows[i][RenameSource(j, c)]]])

(***************************************************************************)
(* filtered_table: filter(GEN=1).                                          *)
(***************************************************************************)
\* A variant with the comparison of the filter turned into "at least".
KeepsRowAtLeast(row) == row["GEN"] >= 1

KeepsRow(row) == row["GEN"] = 1

RECURSIVE FilterRows(_)
FilterRows(rows) ==
    IF rows = <<>> THEN <<>>
    ELSE (IF KeepsRow(Head(rows)) THEN <<Head(rows)>> ELSE <<>>) \o FilterRows(Tail(rows))

filtered_table(rt) ==
    IF rt.err = "schema" THEN SchemaError
    ELSE IF ~HasCols(rt, {"GEN"}) THEN SchemaError
    ELSE IF rt.err = "compute" THEN rt
    ELSE Plan(rt.cols, rt.dtypes, FilterRows(rt.rows))

(***************************************************************************)
(* type_count_table: select(ID, TYPE_COUNT = count().over("TYPE_1")), a    *)
(* window count: one output row per input row, in the input's order.       *)
(***************************************************************************)
\* A variant that collapses the rows to one per type, as a group-by would.
RECURSIVE FirstOfType(_, _)
FirstOfType(rows, n) ==
    IF n = 0 THEN <<>>
    ELSE FirstOfType(rows, n - 1)
         \o (IF \A j \in 1..(n - 1) : rows[j]["TYPE_1"] # rows[n]["TYPE_1"]
             THEN <<n>> ELSE <<>>)

TypeCountRowsGrouped(rows) ==
    LET first == FirstOfType(rows, Len(rows))
    IN  [k \in DOMAIN first |->
            [c \in {"ID", "TYPE_COUNT"} |->
                IF c = "ID" THEN rows[first[k]]["ID"]
                ELSE Cardinality({j \in DOMAIN rows :
                                     rows[j]["TYPE_1"] = rows[first[k]]["TYPE_1"]})]]

CountOver(rows, col, v) == Cardinality({j \in DOMAIN rows : rows[j][col] = v})

TypeCountRows(rows) ==
    [i \in DOMAIN rows |->
        [c \in {"ID", "TYPE_COUNT"} |->
            IF c = "ID" THEN rows[i]["ID"]
            ELSE CountOver(rows, "TYPE_1", rows[i]["TYPE_1"])]]

type_count_table(ft) ==
    IF ft.err = "schema" THEN SchemaError
    ELSE IF ~HasCols(ft, {"ID", "TYPE_1"}) THEN SchemaError
    ELSE LET cols == <<"ID", "TYPE_COUNT">>
             dtypes == [c \in Range(cols) |->
                           IF c = "ID" THEN ft.dtypes["ID"] ELSE UInt32]
         IN  IF ft.err = "compute" THEN ComputeError(cols, dtypes)
             ELSE Plan(cols, dtypes, TypeCountRows(ft.rows))

(***************************************************************************)
(* calculated_base_stats_table: the sum of the six base attributes.        *)
(***************************************************************************)
StatCols == {"HP", "ATTACK", "DEFENSE", "SP_ATTACK", "SP_DEFENSE", "SPEED"}

BaseStats(row) ==
    row["HP"] + row["ATTACK"] + row["DEFENSE"]
        + row["SP_ATTACK"] + row["SP_DEFENSE"] + row["SPEED"]

calculated_base_stats_table(ft) ==
    IF ft.err = "schema" THEN SchemaError
    ELSE IF ~HasCols(ft, {"ID"} \cup StatCols) THEN SchemaError
    ELSE LET cols == <<"ID", "BASE_STATS">>
             dtypes == [c \in Range(cols) |->
                           IF c = "ID" THEN ft.dtypes["ID"] ELSE ft.dtypes["HP"]]
         IN  IF ft.err = "compute" THEN ComputeError(cols, dtypes)
             ELSE Plan(cols, dtypes,
                       [i \in DOMAIN ft.rows |->
                           [c \in Range(cols) |->
                               IF c = "ID" THEN ft.rows[i]["ID"]
                               ELSE BaseStats(ft.rows[i])]])

(***************************************************************************)
(* calculated_egg_hatch_time_table: (EGG_STEPS / 100).ceil().cast(Int64).  *)
(***************************************************************************)
HatchDivisor == 100

EggHatchTime(steps) == (steps + (HatchDivisor - 1)) \div HatchDivisor

calculated_egg_hatch_time_table(ft) ==
    IF ft.err = "schema" THEN SchemaError
    ELSE IF ~HasCols(ft, {"ID", "EGG_STEPS"}) THEN SchemaError
    ELSE LET cols == <<"ID", "EGG_HATCH_TIME">>
             dtypes == [c \in Range(cols) |->
                           IF c = "ID" THEN ft.dtypes["ID"] ELSE Int64]
         IN  IF ft.err = "compute" THEN ComputeError(cols, dtypes)
             ELSE Plan(cols, dtypes,
                       [i \in DOMAIN ft.rows |->
                           [c \in Range(cols) |->
                               IF c = "ID" THEN ft.rows[i]["ID"]
                               ELSE EggHatchTime(ft.rows[i]["EGG_STEPS"])]])

(***************************************************************************)
(* calculated_bmi_table: HEIGHT_METERS is cast to Float32 (a strict cast:  *)
(* one cell that is no number fails the whole column), then                *)
(* BMI = WEIGHT_KILOGRAMS / HEIGHT_METERS^2.  A BMI is kept as the exact   *)
(* fraction num/den, so that equal quotients of different cells tie.       *)
(***************************************************************************)
CastFails(rows) == \E i \in DOMAIN rows : rows[i]["HEIGHT_METERS"] = Unparsable

Bmi(row) ==
    [num |-> row["WEIGHT_KILOGRAMS"],
     den |-> row["HEIGHT_METERS"] * row["HEIGHT_METERS"]]

calculated_bmi_table(ft) ==
    IF ft.err = "schema" THEN SchemaError
    ELSE IF ~HasCols(ft, {"ID", "HEIGHT_METERS", "WEIGHT_KILOGRAMS"}) THEN SchemaError
    ELSE LET cols == <<"ID", "BMI">>
             dtypes == [c \in Range(cols) |->
                           IF c = "ID" THEN ft.dtypes["ID"] ELSE Float64]
         IN  IF ft.err = "compute" \/ CastFails(ft.rows)
             THEN ComputeError(cols, dtypes)
             ELSE Plan(cols, dtypes,
                       [i \in DOMAIN ft.rows |->
                           [c \in Range(cols) |->
                               IF c = "ID" THEN ft.rows[i]["ID"]
                               ELSE Bmi(ft.rows[i])]])

(***************************************************************************)
(* ranked_bmi_table: rank(method="ordinal", descending=True).  polars      *)
(* sorts the row indices by value, descending and stable, and a row's rank *)
(* is its place in that order.                                             *)
(***************************************************************************)
\* A variant that ranks ascending.
BmiSmaller(x, y) == x.num * y.den < y.num * x.den

BmiGreater(x, y) == x.num * y.den > y.num * x.den

\* Index i goes behind every index whose value is not smaller.
InsertDesc(vals, order, i) ==
    LET k == Cardinality({p \in DOMAIN order : ~BmiGreater(vals[i], vals[order[p]])})
    IN  SubSeq(order, 1, k) \o <<i>> \o SubSeq(order, k + 1, Len(order))

RECURSIVE ArgSortDesc(_, _)
ArgSortDesc(vals, n) ==
    IF n = 0 THEN <<>> ELSE InsertDesc(vals, ArgSortDesc(vals, n - 1), n)

OrdinalRankDesc(vals) ==
    [i \in DOMAIN vals |-> IndexOf(ArgSortDesc(vals, Len(vals)), i)]

ranked_bmi_table(bt) ==
    IF bt.err = "schema" THEN SchemaError
    ELSE IF ~HasCols(bt, {"BMI"}) THEN SchemaError
    ELSE LET cols == IF "BMI_RANK" \in Range(bt.cols) THEN bt.cols
                     ELSE Append(bt.cols, "BMI_RANK")
             dtypes == [c \in Range(cols) |->
                           IF c = "BMI_RANK" THEN UInt32 ELSE bt.dtypes[c]]
             ranks == OrdinalRankDesc([i \in DOMAIN bt.rows |-> bt.rows[i]["BMI"]])
         IN  IF bt.err = "compute" THEN ComputeError(cols, dtypes)
             ELSE Plan(cols, dtypes,
                       [i \in DOMAIN bt.rows |->
                           [c \in Range(cols) |->
                               IF c = "BMI_RANK" THEN ranks[i] ELSE bt.rows[i][c]]])

(***************************************************************************)
(* aggregated_table: the filtered table joined with the four derived       *)
(* tables on ID.                                                           *)
(***************************************************************************)
aggregated_table(ft, tc, bs, eh, rb) == Join(Join(Join(Join(ft, tc), bs), eh), rb)

(***************************************************************************)
(* pokemon_table: the column list of the CREATE OR REPLACE TABLE statement.*)
(* dtype_map is a dict and dtype_map.get(dtype, "VARIANT") an exact-key    *)
(* lookup: a dtype with parameters finds only an entry written with the    *)
(* same parameters, which is why the dict lists Decimal three times.       *)
(***************************************************************************)
dtype_map ==
    (DT("Int64", "") :> "INTEGER") @@ (DT("Int32", "") :> "INTEGER")
    @@ (DT("UInt32", "") :> "INTEGER") @@ (DT("UInt64", "") :> "INTEGER")
    @@ (DT("Float64", "") :> "FLOAT") @@ (DT("Float32", "") :> "FLOAT")
    @@ (DT("Boolean", "") :> "BOOLEAN") @@ (DT("Utf8", "") :> "VARCHAR")
    @@ (DT("Date", "") :> "DATE") @@ (DT("Datetime", "") :> "TIMESTAMP")
    @@ (DT("Time", "") :> "TIME") @@ (DT("Duration", "") :> "INTERVAL")
    @@ (DT("Object", "") :> "VARIANT") @@ (DT("List", "") :> "ARRAY")
    @@ (DT("Decimal", "") :> "DECIMAL")
    @@ (DT("Decimal", "None,1") :> "DECIMAL")
    @@ (DT("Decimal", "None,2") :> "DECIMAL")

WarehouseType(dtype) ==
    IF dtype \in DOMAIN dtype_map THEN dtype_map[dtype] ELSE "VARIANT"

columns_sql(agg) ==
    [i \in DOMAIN agg.cols |->
        [name |-> agg.cols[i], type |-> WarehouseType(agg.dtypes[agg.cols[i]])]]

(***************************************************************************)
(* The destination table PY_POKEMON_PROCESSED with its table stage         *)
(* @%PY_POKEMON_PROCESSED and its load history.  CREATE OR REPLACE drops   *)
(* the table, and with it its stage and its history, and creates an empty  *)
(* one.  PUT does not overwrite a staged file of the same name.  COPY INTO *)
(* loads the staged files the table has not loaded yet, all or nothing,    *)
(* skipping each file's header line and filling the columns by position.   *)
(***************************************************************************)
NoTable == [exists |-> FALSE, cols |-> <<>>, rows |-> <<>>, stage |-> {}, loaded |-> {}]

\* A variant that keeps a table that exists: CREATE TABLE IF NOT EXISTS.
CreateIfNotExists(d, cols) ==
    IF d.exists THEN d
    ELSE [exists |-> TRUE, cols |-> cols, rows |-> <<>>, stage |-> {}, loaded |-> {}]

CreateOrReplace(d, cols) ==
    [exists |-> TRUE, cols |-> cols, rows |-> <<>>, stage |-> {}, loaded |-> {}]

\* write_csv: a header line, then one line per row, cells in column order.
CsvLines(t) ==
    <<t.cols>> \o [i \in DOMAIN t.rows |->
                      [k \in DOMAIN t.cols |-> t.rows[i][t.cols[k]]]]

NoFile == [exists |-> FALSE, lines |-> <<>>]

\* PUT compresses the file: it is staged under the name with .gz.
StagedName == "pokemon.csv.gz"

Put(d, lines) ==
    IF \E f \in d.stage : f.name = StagedName THEN d
    ELSE [d EXCEPT !.stage = @ \cup {[name |-> StagedName, lines |-> lines]}]

SkipHeader == 1

DataLines(lines) == SubSeq(lines, SkipHeader + 1, Len(lines))

Pending(d) == {f \in d.stage : f.name \notin d.loaded}

\* A line whose field count is not the table's column count aborts the load.
Loadable(d) ==
    \A f \in Pending(d) : \A i \in DOMAIN DataLines(f.lines) :
        Len(DataLines(f.lines)[i]) = Len(d.cols)

CopyInto(d) ==
    IF Pending(d) = {} THEN d
    ELSE LET f == CHOOSE g \in Pending(d) : TRUE
         IN  [d EXCEPT !.rows = @ \o DataLines(f.lines),
                       !.loaded = @ \cup {f.name}]

(***************************************************************************)
(* The raw tables the warehouse can hold.  The bounded families vary the   *)
(* rows of the base table, the IDs of the other two tables, the column     *)
(* names of all three, and the types of the two measurement columns.       *)
(***************************************************************************)
MaxRows == 3

BaseCols ==
    <<"ID", "Type 1", "Type 2", "GEN", "HEIGHT_METERS", "WEIGHT_KILOGRAMS",
      "HP", "ATTACK", "DEFENSE", "Sp. Attack", "Sp. Defense", "SPEED">>

BattleCols == <<"ID", "CAPTURE_RATE">>

ReproCols == <<"ID", "EGG_STEPS">>

DecimalNone1 == DT("Decimal", "None,1")

DefaultDtype(c) ==
    CASE c \in {"Type 1", "Type 2", "NOTE", "NOTE_right"} -> Utf8
      [] c \in {"HEIGHT_METERS", "WEIGHT_KILOGRAMS"} -> DecimalNone1
      [] OTHER -> Int64

\* generation, primary type, height and weight of a row
Species ==
    { [gen |-> 1, type |-> "fire", h |-> 2, w |-> 40],
      [gen |-> 1, type |-> "fire", h |-> 1, w |-> 10],
      [gen |-> 1, type |-> "water", h |-> 1, w |-> 40],
      [gen |-> 2, type |-> "fire", h |-> 1, w |-> 5] }

Cell(c, id, sp) ==
    CASE c = "ID" -> id
      [] c = "Type 1" -> sp.type
      [] c = "Type 2" -> "none"
      [] c = "GEN" -> sp.gen
      [] c = "HEIGHT_METERS" -> sp.h
      [] c = "WEIGHT_KILOGRAMS" -> sp.w
      [] c = "HP" -> 45
      [] c \in {"ATTACK", "DEFENSE"} -> 49
      [] c \in {"Sp. Attack", "Sp. Defense"} -> 65
      [] c = "SPEED" -> 45
      [] c = "EGG_STEPS" -> 250 * id + 1
      [] c = "CAPTURE_RATE" -> 45
      [] OTHER -> "note"

RowOf(cols, id, sp) == [c \in Range(cols) |-> Cell(c, id, sp)]

Table(cols, rows) == Plan(cols, [c \in Range(cols) |-> DefaultDtype(c)], rows)

AnySpecies == CHOOSE sp \in Species : sp.gen = 1 /\ sp.h = 1 /\ sp.type = "fire"

IdRows(cols, ids) == [i \in DOMAIN ids |-> RowOf(cols, ids[i], AnySpecies)]

AllIds == [i \in 1..MaxRows |-> i]

\* The ID column of a base table of k rows: unique IDs, or the first ID
\* once more in the last row.
IdLists(k) ==
    {[i \in 1..k |-> i], [i \in 1..k |-> IF i = k THEN 1 ELSE i]}

BaseRowSeqs ==
    UNION { { [i \in 1..k |-> RowOf(BaseCols, ids[i], sps[i])] :
                ids \in IdLists(k), sps \in [1..k -> Species] } : k \in 0..MaxRows }

RowSources ==
    { [base |-> Table(BaseCols, rows),
       battle |-> Table(BattleCols, IdRows(BattleCols, AllIds)),
       repro |-> Table(ReproCols, IdRows(ReproCols, AllIds))] : rows \in BaseRowSeqs }

\* The IDs of a table that lacks some ID, or has one twice.
SomeIdLists == {AllIds, Tail(AllIds), SubSeq(AllIds, 1, MaxRows - 1)}

TwiceIdList == <<1, 1>>

JoinSources ==
    { [base |-> Table(BaseCols, IdRows(BaseCols, bi)),
       battle |-> Table(BattleCols, IdRows(BattleCols, ti)),
       repro |-> Table(ReproCols, IdRows(ReproCols, ri))] :
        bi \in {AllIds, Tail(AllIds)}, ti \in SomeIdLists \cup {TwiceIdList},
        ri \in SomeIdLists }

\* Column lists without the key, and with names that two or three tables share.
BaseColsSet == {BaseCols, Tail(BaseCols), Append(BaseCols, "NOTE")}

BattleColsSet ==
    {BattleCols, Tail(BattleCols), Append(BattleCols, "NOTE"), Append(BattleCols, "HP")}

ReproColsSet ==
    {ReproCols, Tail(ReproCols), Append(ReproCols, "NOTE"),
     Append(ReproCols, "NOTE_right")}

SchemaSources ==
    { [base |-> Table(bc, IdRows(bc, <<1, 2>>)),
       battle |-> Table(tc, IdRows(tc, <<1, 2>>)),
       repro |-> Table(rc, IdRows(rc, <<1, 2>>))] :
        bc \in BaseColsSet, tc \in BattleColsSet, rc \in ReproColsSet }

\* The types a measurement column read from the warehouse can have: classes
\* without parameters, and decimals of several precisions and scales.
PlainDtypes ==
    {DT(c, "") : c \in {"Int64", "Int32", "Int16", "UInt32", "Float64", "Float32", "Utf8"}}

DecimalDtypes ==
    {DT("Decimal", a) : a \in {"None,0", "None,1", "None,2", "None,3", "38,2", "10,4"}}

WithDtypes(t, hd, wd) ==
    [t EXCEPT !.dtypes["HEIGHT_METERS"] = hd, !.dtypes["WEIGHT_KILOGRAMS"] = wd]

\* A text column can hold a cell that is no number.
HeightCells(hd) == IF hd = Utf8 THEN {1, Unparsable} ELSE {1}

DtypeSourcesOf(hd) ==
    { [base |-> WithDtypes(
                   Table(BaseCols,
                         <<RowOf(BaseCols, 1, [AnySpecies EXCEPT !.h = h]),
                           RowOf(BaseCols, 2, AnySpecies)>>), hd, wd),
       battle |-> Table(BattleCols, IdRows(BattleCols, <<1, 2>>)),
       repro |-> Table(ReproCols, IdRows(ReproCols, <<1, 2>>))] :
        wd \in {DecimalNone1, Float64, DT("Decimal", "None,3")},
        h \in HeightCells(hd) }

DtypeSources == UNION {DtypeSourcesOf(hd) : hd \in PlainDtypes \cup DecimalDtypes}

Sources == RowSources \cup JoinSources \cup SchemaSources \cup DtypeSources

\* What the raw tables can become between two runs.
Snapshots ==
    { [base |-> Table(BaseCols, rows),
       battle |-> Table(BattleCols, IdRows(BattleCols, <<1, 2>>)),
       repro |-> Table(ReproCols, IdRows(ReproCols, <<1, 2>>))] :
        rows \in { <<RowOf(BaseCols, 2, AnySpecies)>>,
                   <<RowOf(BaseCols, 1, AnySpecies), RowOf(BaseCols, 2, AnySpecies)>> } }

(***************************************************************************)
(* The runs of pokedex_job.  A run materializes every asset once, each     *)
(* after the assets it depends on; an asset that raises fails the run and  *)
(* the assets after it are skipped.                                        *)
(***************************************************************************)
MaxRuns == 2

Runs == 1..MaxRuns

FrameAssets ==
    {"raw_base_table", "raw_battle_table", "raw_repro_table", "joined_table",
     "renamed_table", "filtered_table", "type_count_table",
     "calculated_base_stats_table", "calculated_egg_hatch_time_table",
     "calculated_bmi_table", "ranked_bmi_table", "aggregated_table"}

Derived ==
    {"type_count_table", "calculated_base_stats_table",
     "calculated_egg_hatch_time_table", "ranked_bmi_table"}

Deps(a) ==
    CASE a \in {"raw_base_table", "raw_battle_table", "raw_repro_table"} -> {}
      [] a = "joined_table" -> {"raw_base_table", "raw_battle_table", "raw_repro_table"}
      [] a = "renamed_table" -> {"joined_table"}
      [] a = "filtered_table" -> {"renamed_table"}
      [] a \in {"type_count_table", "calculated_base_stats_table",
                "calculated_egg_hatch_time_table", "calculated_bmi_table"} ->
             {"filtered_table"}
      [] a = "ranked_bmi_table" -> {"calculated_bmi_table"}
      [] a = "aggregated_table" -> {"filtered_table"} \cup Derived
      [] a = "pokemon_table" -> {"aggregated_table"}
      [] a = "filled_pokemon_table" -> {"pokemon_table", "aggregated_table"}

\* The output of an asset that has not run.
Unset == [err |-> "unset", cols |-> <<>>, dtypes |-> <<>>, rows |-> <<>>]

IdleRun ==
    [st |-> "idle", done |-> {}, out |-> [a \in FrameAssets |-> Unset],
     fpc |-> "start", raised |-> "none", before |-> NoTable,
     created |-> FALSE, copied |-> FALSE]

VARIABLES
    src,        \* the raw tables RAW_POKEMON_BASE, _BATTLE and _REPRODUCTION
    dest,       \* the table PY_POKEMON_PROCESSED, its stage and load history
    tmp,        \* the file pokemon.csv of the temp directory
    run,        \* the state of each run
    published   \* the rows of the last run that succeeded

vars == <<src, dest, tmp, run, published>>

Init ==
    /\ src \in Sources
    /\ dest = NoTable
    /\ tmp = NoFile
    /\ run = [r \in Runs |-> IdleRun]
    /\ published = [has |-> FALSE, rows |-> <<>>]

Finished(r) == run[r].st \in {"ok", "failed"}

\* Runs follow one another: the schedule starts a run each hour.
StartRun(r) ==
    /\ run[r].st = "idle"
    /\ \A q \in Runs : q < r => Finished(q)
    /\ run' = [q \in Runs |->
                  IF q = r THEN [IdleRun EXCEPT !.st = "running", !.before = dest]
                  ELSE [run[q] EXCEPT !.out = IdleRun.out, !.before = NoTable]]
    /\ UNCHANGED <<src, dest, tmp, published>>

\* The raw tables change between two runs.
Ingest ==
    /\ \A q \in Runs : run[q].st # "running"
    /\ \E q \in Runs : run[q].st = "idle"
    /\ \E q \in Runs : Finished(q)
    /\ src \notin Snapshots
    /\ \E s \in Snapshots : src' = s
    /\ UNCHANGED <<dest, tmp, run, published>>

Ready(r, a) ==
    /\ run[r].st = "running"
    /\ a \notin run[r].done
    /\ Deps(a) \subseteq run[r].done

Materialize(r, a, value) ==
    /\ Ready(r, a)
    /\ run' = [run EXCEPT ![r].done = @ \cup {a}, ![r].out[a] = value]
    /\ UNCHANGED <<src, dest, tmp, published>>

Out(r, a) == run[r].out[a]

Do_raw_base_table(r) == Materialize(r, "raw_base_table", src.base)

Do_raw_battle_table(r) == Materialize(r, "raw_battle_table", src.battle)

Do_raw_repro_table(r) == Materialize(r, "raw_repro_table", src.repro)

Do_joined_table(r) ==
    Materialize(r, "joined_table",
                joined_table(Out(r, "raw_base_table"), Out(r, "raw_battle_table"),
                             Out(r, "raw_repro_table")))

Do_renamed_table(r) ==
    Materialize(r, "renamed_table", renamed_table(Out(r, "joined_table")))

Do_filtered_table(r) ==
    Materialize(r, "filtered_table", filtered_table(Out(r, "renamed_table")))

\* A variant that counts over the table before the filter.
Do_type_count_table_unfiltered(r) ==
    Materialize(r, "type_count_table", type_count_table(Out(r, "renamed_table")))

Do_type_count_table(r) ==
    Materialize(r, "type_count_table", type_count_table(Out(r, "filtered_table")))

Do_calculated_base_stats_table(r) ==
    Materialize(r, "calculated_base_stats_table",
                calculated_base_stats_table(Out(r, "filtered_table")))

Do_calculated_egg_hatch_time_table(r) ==
    Materialize(r, "calculated_egg_hatch_time_table",
                calculated_egg_hatch_time_table(Out(r, "filtered_table")))

Do_calculated_bmi_table(r) ==
    Materialize(r, "calculated_bmi_table", calculated_bmi_table(Out(r, "filtered_table")))

Do_ranked_bmi_table(r) ==
    Materialize(r, "ranked_bmi_table", ranked_bmi_table(Out(r, "calculated_bmi_table")))

Do_aggregated_table(r) ==
    Materialize(r, "aggregated_table",
                aggregated_table(Out(r, "filtered_table"), Out(r, "type_count_table"),
                                 Out(r, "calculated_base_stats_table"),
                                 Out(r, "calculated_egg_hatch_time_table"),
                                 Out(r, "ranked_bmi_table")))

(***************************************************************************)
(* pokemon_table (assets.py:345-387): the schema of the aggregated plan is *)
(* resolved, which raises a schema error of any step of the plan, and then *)
(* the CREATE OR REPLACE TABLE statement is executed, which may fail.      *)
(***************************************************************************)
Fail(r, kind) == run' = [run EXCEPT ![r].st = "failed", ![r].raised = kind]

Do_pokemon_table(r) ==
    /\ Ready(r, "pokemon_table")
    /\ LET agg == Out(r, "aggregated_table")
       IN  IF agg.err = "schema"
           THEN Fail(r, "schema") /\ UNCHANGED dest
           ELSE \E ok \in BOOLEAN :
                   IF ok
                   THEN /\ dest' = CreateOrReplace(dest, columns_sql(agg))
                        /\ run' = [run EXCEPT ![r].done = @ \cup {"pokemon_table"},
                                              ![r].created = TRUE]
                   ELSE Fail(r, "sink") /\ UNCHANGED dest
    /\ UNCHANGED <<src, tmp, published>>

(***************************************************************************)
(* filled_pokemon_table (assets.py:397-421), statement by statement: the   *)
(* plan is collected and written to pokemon.csv (413), the file is PUT to  *)
(* the table stage (416), COPY INTO loads the stage (417), and the file is *)
(* removed (421).  A statement that raises ends the asset there.           *)
(***************************************************************************)
fp_write_csv(r) ==
    /\ Ready(r, "filled_pokemon_table")
    /\ run[r].fpc = "start"
    /\ LET agg == Out(r, "aggregated_table")
       IN  IF agg.err # "none"
           THEN Fail(r, agg.err) /\ UNCHANGED tmp
           ELSE /\ tmp' = [exists |-> TRUE, lines |-> CsvLines(agg)]
                /\ run' = [run EXCEPT ![r].fpc = "written"]
    /\ UNCHANGED <<src, dest, published>>

fp_put(r) ==
    /\ run[r].st = "running"
    /\ run[r].fpc = "written"
    /\ \E ok \in BOOLEAN :
          IF ok /\ tmp.exists /\ dest.exists
          THEN /\ dest' = Put(dest, tmp.lines)
               /\ run' = [run EXCEPT ![r].fpc = "put"]
          ELSE Fail(r, "sink") /\ UNCHANGED dest
    /\ UNCHANGED <<src, tmp, published>>

fp_copy(r) ==
    /\ run[r].st = "running"
    /\ run[r].fpc = "put"
    /\ \E ok \in BOOLEAN :
          IF ok /\ dest.exists /\ Loadable(dest)
          THEN /\ dest' = CopyInto(dest)
               /\ run' = [run EXCEPT ![r].fpc = "copied", ![r].copied = TRUE]
          ELSE Fail(r, "sink") /\ UNCHANGED dest
    /\ UNCHANGED <<src, tmp, published>>

fp_remove(r) ==
    /\ run[r].st = "running"
    /\ run[r].fpc = "copied"
    /\ IF tmp.exists
       THEN /\ tmp' = NoFile
            /\ run' = [run EXCEPT ![r].fpc = "removed", ![r].st = "ok",
                                  ![r].done = @ \cup {"filled_pokemon_table"}]
            /\ published' = [has |-> TRUE,
                             rows |-> DataLines(CsvLines(Out(r, "aggregated_table")))]
       ELSE Fail(r, "os") /\ UNCHANGED <<tmp, published>>
    /\ UNCHANGED <<src, dest>>

Next ==
    \/ Ingest
    \/ \E r \in Runs :
          \/ StartRun(r)
          \/ Do_raw_base_table(r)
          \/ Do_raw_battle_table(r)
          \/ Do_raw_repro_table(r)
          \/ Do_joined_table(r)
          \/ Do_renamed_table(r)
          \/ Do_filtered_table(r)
          \/ Do_type_count_table(r)
          \/ Do_calculated_base_stats_table(r)
          \/ Do_calculated_egg_hatch_time_table(r)
          \/ Do_calculated_bmi_table(r)
          \/ Do_ranked_bmi_table(r)
          \/ Do_aggregated_table(r)
          \/ Do_pokemon_table(r)
          \/ fp_write_csv(r)
          \/ fp_put(r)
          \/ fp_copy(r)
          \/ fp_remove(r)

Spec == Init /\ [][Next]_vars

(***************************************************************************)
(* Overlapping runs.  The schedule (schedules.py:4-11) starts a run each   *)
(* hour and pokedex_job (jobs.py:3-7) can be launched on demand as well;   *)
(* nothing in the code keeps a run from starting while another is under    *)
(* way.  The runs share the raw tables, the table PY_POKEMON_PROCESSED     *)
(* with its stage, and the path of pokemon.csv in the temp directory.      *)
(***************************************************************************)
InitOverlap ==
    /\ src \in Snapshots
    /\ dest = NoTable
    /\ tmp = NoFile
    /\ run = [r \in Runs |-> IdleRun]
    /\ published = [has |-> FALSE, rows |-> <<>>]

\* A run starts, whatever the other runs are doing.
StartOverlapping(r) ==
    /\ run[r].st = "idle"
    /\ run' = [run EXCEPT ![r] = [IdleRun EXCEPT !.st = "running", !.before = dest]]
    /\ UNCHANGED <<src, dest, tmp, published>>

\* The raw tables change after one run has started and before the next does.
IngestDuring ==
    /\ \E q \in Runs : run[q].st = "running"
    /\ \E q \in Runs : run[q].st = "idle"
    /\ \E s \in Snapshots \ {src} : src' = s
    /\ UNCHANGED <<dest, tmp, run, published>>

NextOverlap ==
    \/ IngestDuring
    \/ \E r \in Runs :
          \/ StartOverlapping(r)
          \/ Do_raw_base_table(r)
          \/ Do_raw_battle_table(r)
          \/ Do_raw_repro_table(r)
          \/ Do_joined_table(r)
          \/ Do_renamed_table(r)
          \/ Do_filtered_table(r)
          \/ Do_type_count_table(r)
          \/ Do_calculated_base_stats_table(r)
          \/ Do_calculated_egg_hatch_time_table(r)
          \/ Do_calculated_bmi_table(r)
          \/ Do_ranked_bmi_table(r)
          \/ Do_aggregated_table(r)
          \/ Do_pokemon_table(r)
          \/ fp_write_csv(r)
          \/ fp_put(r)
          \/ fp_copy(r)
          \/ fp_remove(r)

SpecOverlap == InitOverlap /\ [][NextOverlap]_vars

(***************************************************************************)
(* Properties.                                                             *)
(***************************************************************************)
Ran(r, a) == a \in run[r].done

IdSeq(t) == [i \in DOMAIN t.rows |-> t.rows[i]["ID"]]

IdSet(t) == Range(IdSeq(t))

\* C1: when the IDs of the filtered table are unique and the four derived
\* tables were computed from it, the aggregated table has exactly one row
\* for each ID of the filtered table: the same number of rows, no ID twice,
\* no ID lost.
C1_AggregatedOneRowPerId ==
    \A r \in Runs :
        LET ft == Out(r, "filtered_table")
            agg == Out(r, "aggregated_table")
        IN  ( /\ Ran(r, "aggregated_table")
              /\ ft.err = "none"
              /\ \A a \in Derived : Out(r, a).err = "none"
              /\ NoDup(IdSeq(ft)) )
            => /\ agg.err = "none"
               /\ Len(agg.rows) = Len(ft.rows)
               /\ NoDup(IdSeq(agg))
               /\ IdSet(agg) = IdSet(ft)

C1_Witness ==
    \E r \in Runs :
        /\ Ran(r, "aggregated_table")
        /\ Out(r, "aggregated_table").err = "none"
        /\ NoDup(IdSeq(Out(r, "filtered_table")))
        /\ Len(Out(r, "filtered_table").rows) >= 2
        /\ Len(Out(r, "renamed_table").rows) > Len(Out(r, "filtered_table").rows)

\* C2: the joined table holds exactly the IDs that all three raw tables
\* hold; an ID that one of them lacks is dropped, and that is no error.
C2_JoinedIsInnerJoin ==
    \A r \in Runs :
        LET b == Out(r, "raw_base_table")
            t == Out(r, "raw_battle_table")
            p == Out(r, "raw_repro_table")
            j == Out(r, "joined_table")
        IN  ( /\ Ran(r, "joined_table")
              /\ HasCols(b, {"ID"}) /\ HasCols(t, {"ID"}) /\ HasCols(p, {"ID"}) )
            => /\ j.err = "none" => IdSet(j) = IdSet(b) \cap IdSet(t) \cap IdSet(p)
               /\ ( /\ Range(b.cols) \cap Range(t.cols) = {"ID"}
                    /\ Range(b.cols \o t.cols) \cap Range(p.cols) = {"ID"} )
                  => j.err = "none"

C2_Witness ==
    \E r \in Runs :
        /\ Ran(r, "joined_table")
        /\ Out(r, "joined_table").err = "none"
        /\ Out(r, "joined_table").rows # <<>>
        /\ IdSet(Out(r, "raw_base_table")) \ IdSet(Out(r, "raw_battle_table")) # {}
        /\ IdSet(Out(r, "raw_battle_table")) \ IdSet(Out(r, "raw_repro_table")) # {}

\* The place in the renamed table of the k-th row whose GEN is 1.
KthGen1(rt, k) ==
    CHOOSE i \in DOMAIN rt.rows :
        /\ rt.rows[i]["GEN"] = 1
        /\ Cardinality({j \in 1..i : rt.rows[j]["GEN"] = 1}) = k

\* C3: the filtered table keeps exactly the rows of the renamed table whose
\* GEN is 1, in their order, and drops every other row; it has the columns
\* of its input and never more rows.
C3_FilterKeepsGen1 ==
    \A r \in Runs :
        LET rt == Out(r, "renamed_table")
            ft == Out(r, "filtered_table")
        IN  (Ran(r, "filtered_table") /\ rt.err = "none")
            => /\ ft.err = "none"
               /\ ft.cols = rt.cols
               /\ ft.dtypes = rt.dtypes
               /\ Len(ft.rows) <= Len(rt.rows)
               /\ Len(ft.rows) =
                      Cardinality({i \in DOMAIN rt.rows : rt.rows[i]["GEN"] = 1})
               /\ \A k \in DOMAIN ft.rows : ft.rows[k] = rt.rows[KthGen1(rt, k)]

C3_Witness ==
    \E r \in Runs :
        /\ Ran(r, "filtered_table")
        /\ Out(r, "filtered_table").err = "none"
        /\ Len(Out(r, "filtered_table").rows) = 2
        /\ Len(Out(r, "renamed_table").rows) = 3
        /\ Out(r, "renamed_table").rows[2]["GEN"] # 1

BmiEqual(x, y) == x.num * y.den = y.num * x.den

HigherBmi(x, y) == x.num * y.den > y.num * x.den

C5_TypeCountWindow ==
    \A r \in Runs :
        LET ft == Out(r, "filtered_table")
            tc == Out(r, "type_count_table")
        IN  (Ran(r, "type_count_table") /\ ft.err = "none")
            => /\ tc.err = "none"
               /\ tc.cols = <<"ID", "TYPE_COUNT">>
               /\ Len(tc.rows) = Len(ft.rows)
               /\ \A i \in DOMAIN ft.rows :
                     /\ tc.rows[i]["ID"] = ft.rows[i]["ID"]
                     /\ tc.rows[i]["TYPE_COUNT"] =
                            Cardinality({j \in DOMAIN ft.rows :
                                            ft.rows[j]["TYPE_1"] = ft.rows[i]["TYPE_1"]})

C5_Witness ==
    \E r \in Runs :
        LET ft == Out(r, "filtered_table")
            rt == Out(r, "renamed_table")
            tc == Out(r, "type_count_table")
        IN  /\ Ran(r, "type_count_table")
            /\ tc.err = "none"
            /\ Len(tc.rows) = 2
            /\ tc.rows[1]["TYPE_COUNT"] = 1
            /\ tc.rows[2]["TYPE_COUNT"] = 1
            /\ Len(rt.rows) = 3
            /\ \A i \in DOMAIN rt.rows : rt.rows[i]["TYPE_1"] = "fire" \/ i = 3

\* The keyword the fixed table of the type mapping gives a column type.
ListedKeyword(dtype) ==
    CASE dtype.cls \in {"Int64", "Int32", "UInt32", "UInt64"} -> "INTEGER"
      [] dtype.cls \in {"Float64", "Float32"} -> "FLOAT"
      [] dtype.cls = "Boolean" -> "BOOLEAN"
      [] dtype.cls = "Utf8" -> "VARCHAR"
      [] dtype.cls = "Date" -> "DATE"
      [] dtype.cls = "Datetime" -> "TIMESTAMP"
      [] dtype.cls = "Time" -> "TIME"
      [] dtype.cls = "Duration" -> "INTERVAL"
      [] dtype.cls = "Object" -> "VARIANT"
      [] dtype.cls = "List" -> "ARRAY"
      [] dtype.cls = "Decimal" -> "DECIMAL"
      [] OTHER -> "VARIANT"

\* The run whose CREATE OR REPLACE TABLE made the table as it is.
Creator(r) == run[r].created /\ \A q \in Runs : q > r => ~run[q].created

\* C6: every column of the table pokemon_table creates has the keyword the
\* fixed table lists for the column's type in the aggregated table, a
\* decimal of any precision and scale DECIMAL, an unlisted type VARIANT.
C6_KeywordsAsListed ==
    \A r \in Runs :
        LET agg == Out(r, "aggregated_table")
        IN  (run[r].st = "running" /\ Creator(r))
            => /\ Len(dest.cols) = Len(agg.cols)
               /\ \A i \in DOMAIN dest.cols :
                     /\ dest.cols[i].name = agg.cols[i]
                     /\ dest.cols[i].type = ListedKeyword(agg.dtypes[agg.cols[i]])

\* The rows of a table as the destination table holds them: cells by
\* column position.
PositionalRows(t) ==
    [i \in DOMAIN t.rows |-> [k \in DOMAIN t.cols |-> t.rows[i][t.cols[k]]]]

Latest(r) == \A q \in Runs : q > r => run[q].st = "idle"

\* C7: in every run the table is created or replaced, with the columns of
\* the aggregated table, before anything is loaded; once a run has done
\* both, the table holds exactly the rows of that run's aggregated table.
C7_ReplaceThenLoad ==
    \A r \in Runs :
        LET agg == Out(r, "aggregated_table")
        IN  /\ run[r].fpc # "start" => run[r].created
            /\ run[r].copied => run[r].created
            /\ (run[r].st = "running" /\ run[r].created)
                  => /\ dest.exists
                     /\ [i \in DOMAIN dest.cols |-> dest.cols[i].name] = agg.cols
                     /\ ~run[r].copied => dest.rows = <<>>
            /\ (Latest(r) /\ run[r].copied /\ run[r].st \in {"running", "ok"})
                  => dest.rows = PositionalRows(agg)

C7_Witness ==
    /\ run[1].st = "ok"
    /\ run[2].st = "ok"
    /\ dest.rows # <<>>
    /\ dest.rows = PositionalRows(Out(2, "aggregated_table"))
    /\ src \in Snapshots

\* C8: once a run has succeeded, a reader of the table sees the complete
\* rows of the last run that succeeded or the complete rows of the current
\* run, at every point of every later run.
C8_ReadersSeeCompleteRows ==
    published.has =>
        \/ dest.exists /\ dest.rows = published.rows
        \/ \E r \in Runs :
              /\ run[r].st = "running"
              /\ Ran(r, "aggregated_table")
              /\ Out(r, "aggregated_table").err = "none"
              /\ dest.exists
              /\ dest.rows = PositionalRows(Out(r, "aggregated_table"))

\* C9: a run that a transformation step failed has executed neither the
\* CREATE OR REPLACE TABLE statement nor the load, and has left the table
\* as it was before the run.
C9_TransformFailurePublishesNothing ==
    \A r \in Runs :
        (run[r].st = "failed" /\ run[r].raised \in {"schema", "compute"})
            => /\ ~run[r].created
               /\ ~run[r].copied
               /\ Latest(r) => dest = run[r].before

\* The names other than the key that the column lists l and r share.
SharedNames(l, r) == (Range(l) \cap Range(r)) \ {"ID"}

\* The three raw tables of run r are held as read.
InputsRead(r) ==
    /\ Ran(r, "joined_table")
    /\ Out(r, "raw_base_table").err = "none"
    /\ Out(r, "raw_battle_table").err = "none"
    /\ Out(r, "raw_repro_table").err = "none"

\* A shared name whose suffixed form is a column of either side already.
SuffixTaken(l, r) ==
    \E c \in SharedNames(l, r) : (c \o "_right") \in Range(l) \cup Range(r)

\* The original statement of C10: joined_table fails whenever ID is absent
\* from one of the three inputs or two inputs share a name other than ID.
C10_FailsOnAnyCollision ==
    \A r \in Runs :
        LET b == Out(r, "raw_base_table")
            t == Out(r, "raw_battle_table")
            p == Out(r, "raw_repro_table")
        IN  ( /\ InputsRead(r)
              /\ \/ ~HasCols(b, {"ID"}) \/ ~HasCols(t, {"ID"}) \/ ~HasCols(p, {"ID"})
                 \/ SharedNames(b.cols, t.cols) # {}
                 \/ SharedNames(b.cols, p.cols) # {}
                 \/ SharedNames(t.cols, p.cols) # {} )
            => Out(r, "joined_table").err = "schema"

\* C10 (amended): joined_table fails whenever ID is absent from one of the
\* three inputs.  A name other than ID that two inputs share does not make
\* it fail: the column of the right-hand input is kept under that name with
\* the suffix _right, after the columns of the left-hand input.  With ID in
\* all three inputs, it fails exactly when such a suffixed name is a column
\* already, in the join of base and battle or in the join of their result
\* and reproduction.
C10_FailsOnMissingIdOrTakenSuffix ==
    \A r \in Runs :
        LET b == Out(r, "raw_base_table")
            t == Out(r, "raw_battle_table")
            p == Out(r, "raw_repro_table")
            j == Out(r, "joined_table")
            bt == b.cols \o
                  [i \in DOMAIN RightCols(t) |->
                      IF RightCols(t)[i] \in Range(b.cols)
                      THEN RightCols(t)[i] \o "_right" ELSE RightCols(t)[i]]
        IN  InputsRead(r)
            => /\ (~HasCols(b, {"ID"}) \/ ~HasCols(t, {"ID"}) \/ ~HasCols(p, {"ID"}))
                      => j.err = "schema"
               /\ (HasCols(b, {"ID"}) /\ HasCols(t, {"ID"}) /\ HasCols(p, {"ID"}))
                      => /\ j.err = "schema"
                               <=> \/ SuffixTaken(b.cols, t.cols)
                                   \/ SuffixTaken(bt, p.cols)
                         /\ j.err = "none"
                               => /\ Len(j.cols) = Len(b.cols) + Len(t.cols) + Len(p.cols) - 2
                                  /\ \A c \in SharedNames(b.cols, t.cols) :
                                         (c \o "_right") \in Range(j.cols)

C10_Witness ==
    \E r \in Runs :
        /\ InputsRead(r)
        /\ SharedNames(Out(r, "raw_base_table").cols, Out(r, "raw_battle_table").cols) # {}
        /\ Out(r, "joined_table").err = "none"
        /\ "NOTE_right" \in Range(Out(r, "joined_table").cols)
        /\ Len(Out(r, "joined_table").rows) = 2

\* Run r has written pokemon.csv: its filled_pokemon_table got past line 413.
WroteFile(r) == run[r].fpc # "start"

\* C11: after an execution of filled_pokemon_table that wrote pokemon.csv,
\* whether PUT and COPY INTO succeeded or one of them raised, the file no
\* longer exists in the temp directory.
C11_TempFileRemoved ==
    \A r \in Runs :
        (Finished(r) /\ WroteFile(r) /\ Latest(r)) => ~tmp.exists

\* The file that run r writes and uploads.
OwnLines(r) == CsvLines(Out(r, "aggregated_table"))

\* The table as run r leaves it after its CREATE OR REPLACE and its PUT.
OwnStagedTable(r) ==
    Put(CreateOrReplace(NoTable, columns_sql(Out(r, "aggregated_table"))), OwnLines(r))

\* C12: when runs overlap, a run that has written pokemon.csv and is about
\* to PUT it finds the file it wrote itself; from its write to its remove
\* the file exists; and a run about to COPY loads the table it created
\* itself, holding the one file it staged and nothing else.
C12_OverlappingRunsKeepApart ==
    \A r \in Runs :
        run[r].st = "running"
            => /\ run[r].fpc = "written" => tmp.lines = OwnLines(r)
               /\ run[r].fpc \in {"written", "put", "copied"} => tmp.exists
               /\ run[r].fpc = "put" => dest = OwnStagedTable(r)

=============================================================================
